---- MODULE Spec2Model ----
(***************************************************************************)
(* NumberArrayCompressor (src/NumberArrayCompressor.js): serialization of  *)
(* arrays of integers 1..300 into a printable string and back.             *)
(*                                                                         *)
(* A JavaScript string is modelled as the sequence of its character codes, *)
(* a bit string ('0'/'1' characters) as a sequence of the digits 0 and 1,  *)
(* an array of numbers as a sequence of integers.  null/undefined is the   *)
(* value Null.                                                             *)
(***************************************************************************)
EXTENDS Integers, Sequences, FiniteSets, TLC

VARIABLES
    alphabet,      \* this.alphabet (line 15)
    base,          \* this.base (line 16)
    numbers,       \* the caller's array, handed to serialize (line 268)
    original,      \* the caller's snapshot of the input (line 267)
    runLength,     \* serialize's local runLength (line 134), Null if unset
    bitPacking,    \* serialize's local bitPacking (line 135), Null if unset
    direct,        \* serialize's local direct (line 136), Null if unset
    compressed,    \* the string returned by serialize, or a received one
    decompressed,  \* the array returned by deserialize, Null if none
    error,         \* the message of the Error deserialize threw, or NoError
    pc             \* the caller: "new" -> "serialized" -> "roundtrip",
                   \* or "received" -> "decoded"

vars == <<alphabet, base, numbers, original, runLength, bitPacking, direct,
          compressed, decompressed, error, pc>>

-----------------------------------------------------------------------------
(* Bounds of the model                                                     *)

\* longest array of the exhaustively enumerated small inputs
MaxLen == 4
\* longest run of consecutive values among the generated ranges
MaxRun == 100
\* largest number of distinct values among the generated strided inputs
MaxDistinct == 20
\* largest multiplicity of each value among the generated strided inputs
MaxTimes == 3
\* largest number of copies of one value among the generated repeats
MaxCopies == 300
\* longest string handed to deserialize that serialize did not produce
MaxWire == 3

-----------------------------------------------------------------------------
(* Characters and constants of the program                                 *)

Null == <<-1>>

Comma == 44
Semicolon == 59
MarkerE == 69
MarkerR == 82
MarkerB == 66
MarkerD == 68

FirstCode == 33
EndCode == 126
MinNumber == 1
MaxNumber == 300
bitsPerNumber == 9
bitsPerCount == 8
MaxCount == 255
bitsPerChunk == 6

InvalidEncodingMethod == "Invalid encoding method"
NoError == "none"

-----------------------------------------------------------------------------
(* Library functions of the language                                       *)

Min(a, b) == IF a < b THEN a ELSE b

\* Array.prototype.sort((a, b) => a - b)
Sort(arr) == SortSeq(arr, LAMBDA a, b : a < b)

\* concatenation of a sequence of strings/arrays in order: Array.join(''),
\* or the result of appending each piece in turn to an accumulator
RECURSIVE JoinRange(_, _, _)
JoinRange(pieces, lo, hi) ==
    IF lo > hi THEN <<>>
    ELSE IF lo = hi THEN pieces[lo]
    ELSE LET mid == (lo + hi) \div 2
         IN  JoinRange(pieces, lo, mid) \o JoinRange(pieces, mid + 1, hi)

Join(pieces) == JoinRange(pieces, 1, Len(pieces))

\* String.prototype.indexOf: 0-based index of the first occurrence, or -1
IndexOf(str, c) ==
    LET hits == {i \in 1..Len(str) : str[i] = c}
    IN  IF hits = {} THEN -1
        ELSE (CHOOSE i \in hits : \A j \in hits : i <= j) - 1

\* String.prototype.slice(start, end) for 0 <= start, 0 <= end
Slice(str, start, end) == SubSeq(str, start + 1, Min(end, Len(str)))

\* String.prototype.split(sep) for a one-character separator
Split(str, sep) ==
    LET n   == Len(str)
        pos == SelectSeq([i \in 1..n |-> i], LAMBDA i : str[i] = sep)
        k   == Len(pos)
        cut(j) == IF j = 0 THEN 0 ELSE IF j = k + 1 THEN n + 1 ELSE pos[j]
    IN  [j \in 1..(k + 1) |-> SubSeq(str, cut(j - 1) + 1, cut(j) - 1)]

NonEmpty(p) == Len(p) > 0

\* Number.prototype.toString(2) for a non-negative integer
RECURSIVE ToBinary(_)
ToBinary(n) == IF n < 2 THEN <<n>> ELSE Append(ToBinary(n \div 2), n % 2)

\* String.prototype.padStart(width, '0') / padEnd(width, '0') on a bit string
PadStart(bits, width) ==
    IF Len(bits) >= width THEN bits
    ELSE [i \in 1..(width - Len(bits)) |-> 0] \o bits

PadEnd(bits, width) ==
    IF Len(bits) >= width THEN bits
    ELSE bits \o [i \in 1..(width - Len(bits)) |-> 0]

\* parseInt(bits, 2) on a non-empty bit string
RECURSIVE ParseBinaryFrom(_, _, _)
ParseBinaryFrom(bits, i, acc) ==
    IF i > Len(bits) THEN acc
    ELSE ParseBinaryFrom(bits, i + 1, 2 * acc + bits[i])

ParseBinary(bits) == ParseBinaryFrom(bits, 1, 0)

-----------------------------------------------------------------------------
(* constructor                                                             *)

\* Array.from({length: 126 - 33}, (_, i) => String.fromCharCode(i + 33))
\*   .filter(char => !',;'.includes(char)).join('')
BuildAlphabet ==
    SelectSeq([i \in 1..(EndCode - FirstCode) |-> (i - 1) + FirstCode],
              LAMBDA char : char \notin {Comma, Semicolon})

-----------------------------------------------------------------------------
(* encodeNumber / decodeNumber                                             *)

RECURSIVE encodeNumberLoop(_, _)
encodeNumberLoop(num, result) ==
    IF num > 0
    THEN encodeNumberLoop(num \div base,
                          <<alphabet[(num % base) + 1]>> \o result)
    ELSE result

encodeNumber(num) ==
    IF num = 0 THEN <<alphabet[1]>> ELSE encodeNumberLoop(num, <<>>)

RECURSIVE decodeNumberLoop(_, _, _)
decodeNumberLoop(str, i, result) ==
    IF i > Len(str) THEN result
    ELSE decodeNumberLoop(str, i + 1,
                          result * base + IndexOf(alphabet, str[i]))

decodeNumber(str) == decodeNumberLoop(str, 1, 0)

-----------------------------------------------------------------------------
(* encodeRunLength                                                         *)

\* The run-detection loop.  A run starts at index 0 (start = sorted[0]) and
\* at every index i >= 1 at which the loop takes its else branch, that is
\* where sorted[i] is not sorted[i - 1] + 1; the loop counts in length the
\* elements up to the next such index, or up to the end for the last run,
\* which is pushed after the loop.  (Indices here are 1-based.)
Runs(sorted) ==
    LET n      == Len(sorted)
        heads  == SelectSeq([i \in 1..n |-> i],
                     LAMBDA i : i = 1 \/ sorted[i] # sorted[i - 1] + 1)
        end(k) == IF k = Len(heads) THEN n + 1 ELSE heads[k + 1]
    IN  [k \in 1..Len(heads) |-> <<sorted[heads[k]], end(k) - heads[k]>>]

\* 'R' followed by start ',' length ';' for every run
EncodeRuns(runs) ==
    <<MarkerR>> \o
    Join([k \in 1..Len(runs) |->
            encodeNumber(runs[k][1]) \o <<Comma>> \o
            encodeNumber(runs[k][2]) \o <<Semicolon>>])

\* faulty variant: the runs are detected over the distinct values only
encodeRunLengthDistinct(nums) ==
    IF Len(nums) = 0 THEN <<>>
    ELSE LET sorted == Sort(nums)
             keep   == SelectSeq([i \in 1..Len(sorted) |-> i],
                         LAMBDA i : i = 1 \/ sorted[i] # sorted[i - 1])
         IN  EncodeRuns(Runs([k \in 1..Len(keep) |-> sorted[keep[k]]]))

encodeRunLength(nums) ==
    IF Len(nums) = 0 THEN <<>>
    ELSE EncodeRuns(Runs(Sort(nums)))

-----------------------------------------------------------------------------
(* encodeBitPacking                                                        *)

InRange(num) == num >= MinNumber /\ num <= MaxNumber

\* the frequency map: freq[num] for every key num of the object
Freq(nums) ==
    [num \in {nums[i] : i \in {j \in 1..Len(nums) : InRange(nums[j])}} |->
        Cardinality({i \in 1..Len(nums) : nums[i] = num})]

\* Object.entries(freq) as [number, count] pairs sorted by number
Entries(freq) ==
    LET keys == SelectSeq([v \in 1..MaxNumber |-> v],
                          LAMBDA v : v \in DOMAIN freq)
    IN  [k \in 1..Len(keys) |-> <<keys[k], freq[keys[k]]>>]

\* the bit string: 9 bits of num - 1 and 8 bits of the capped count per entry
EntryBits(entries, cap) ==
    Join([k \in 1..Len(entries) |->
            PadStart(ToBinary(entries[k][1] - 1), bitsPerNumber) \o
            PadStart(ToBinary(Min(entries[k][2], cap)), bitsPerCount)])

\* the bit string cut into 6-bit chunks, each mapped to its alphabet symbol
PackBits(bitString) ==
    [k \in 1..((Len(bitString) + bitsPerChunk - 1) \div bitsPerChunk) |->
        alphabet[ParseBinary(PadEnd(Slice(bitString,
                                          (k - 1) * bitsPerChunk,
                                          (k - 1) * bitsPerChunk + bitsPerChunk),
                                    bitsPerChunk)) + 1]]

\* faulty variant: the count saturates one below the largest 8-bit value
encodeBitPackingCap254(nums) ==
    IF Len(nums) = 0 THEN <<MarkerB>>
    ELSE LET entries == Entries(Freq(nums))
         IN  <<MarkerB>> \o encodeNumber(Len(entries)) \o <<Comma>> \o
             PackBits(EntryBits(entries, MaxCount - 1))

encodeBitPacking(nums) ==
    IF Len(nums) = 0 THEN <<MarkerB>>
    ELSE LET entries == Entries(Freq(nums))
         IN  <<MarkerB>> \o encodeNumber(Len(entries)) \o <<Comma>> \o
             PackBits(EntryBits(entries, MaxCount))

-----------------------------------------------------------------------------
(* encodeDirect                                                            *)

encodeDirect(nums) ==
    LET unique == Sort(nums)
    IN  <<MarkerD>> \o
        Join([i \in 1..Len(unique) |-> encodeNumber(unique[i]) \o <<Comma>>])

-----------------------------------------------------------------------------
(* serialize                                                               *)

\* candidates.reduce((shortest, current) =>
\*     current.length < shortest.length ? current : shortest, candidates[0])
RECURSIVE Reduce(_, _, _)
Reduce(candidates, i, shortest) ==
    IF i > Len(candidates) THEN shortest
    ELSE Reduce(candidates, i + 1,
                IF Len(candidates[i]) < Len(shortest)
                THEN candidates[i] ELSE shortest)

\* the same with <= : the last of the shortest candidates wins
RECURSIVE ReduceLast(_, _, _)
ReduceLast(candidates, i, shortest) ==
    IF i > Len(candidates) THEN shortest
    ELSE ReduceLast(candidates, i + 1,
                    IF Len(candidates[i]) <= Len(shortest)
                    THEN candidates[i] ELSE shortest)

\* what a call leaves behind: the returned string, the three locals and the
\* caller's array
Serialized(result, rl, bp, d, nums) ==
    [result |-> result, runLength |-> rl, bitPacking |-> bp, direct |-> d,
     numbers |-> nums]

\* faulty variant: ties go to the later candidate
serializeTieLast(nums) ==
    IF nums = Null \/ Len(nums) = 0
    THEN Serialized(<<MarkerE>>, Null, Null, Null, nums)
    ELSE LET rl == encodeRunLength(nums)
             bp == encodeBitPacking(Sort(nums))
             d  == encodeDirect(Sort(nums))
         IN  Serialized(ReduceLast(<<d, rl, bp>>, 1, d), rl, bp, d, Sort(nums))

\* faulty variant: the encoders work on a copy, the caller's array is left alone
serializeOnCopy(nums) ==
    IF nums = Null \/ Len(nums) = 0
    THEN Serialized(<<MarkerE>>, Null, Null, Null, nums)
    ELSE LET rl == encodeRunLength(nums)
             bp == encodeBitPacking(Sort(nums))
             d  == encodeDirect(Sort(nums))
         IN  Serialized(Reduce(<<d, rl, bp>>, 1, d), rl, bp, d, nums)

\* faulty variant: no early return, an empty array goes through the encoders
serializeNoEmptyCheck(nums) ==
    LET arr == IF nums = Null THEN <<>> ELSE nums
        rl  == encodeRunLength(arr)
        bp  == encodeBitPacking(Sort(arr))
        d   == encodeDirect(Sort(arr))
    IN  Serialized(Reduce(<<d, rl, bp>>, 1, d), rl, bp, d,
                   IF nums = Null THEN nums ELSE Sort(arr))

\* encodeRunLength sorts the caller's array in place, so encodeBitPacking and
\* encodeDirect are handed the sorted array, and so is the caller
serialize(nums) ==
    IF nums = Null \/ Len(nums) = 0
    THEN Serialized(<<MarkerE>>, Null, Null, Null, nums)
    ELSE LET rl == encodeRunLength(nums)
             bp == encodeBitPacking(Sort(nums))
             d  == encodeDirect(Sort(nums))
         IN  Serialized(Reduce(<<d, rl, bp>>, 1, d), rl, bp, d, Sort(nums))

-----------------------------------------------------------------------------
(* decodeRunLength                                                         *)

\* the numbers one run record contributes
RunNumbers(part) ==
    LET runData == Split(part, Comma)
    IN  IF Len(runData) >= 2
        THEN LET start  == decodeNumber(runData[1])
                 length == decodeNumber(runData[2])
             IN  [j \in 1..length |-> start + (j - 1)]
        ELSE <<>>

decodeRunLength(data) ==
    LET parts == SelectSeq(Split(data, Semicolon), NonEmpty)
    IN  Join([k \in 1..Len(parts) |-> RunNumbers(parts[k])])

-----------------------------------------------------------------------------
(* decodeBitPacking                                                        *)

\* the 6-bit groups of the characters that are in the alphabet
UnpackBits(packedData) ==
    Join([k \in 1..Len(packedData) |->
            LET value == IndexOf(alphabet, packedData[k])
            IN  IF value # -1
                THEN PadStart(ToBinary(value), bitsPerChunk)
                ELSE <<>>])

\* the numbers the record i (0-based) contributes
EntryNumbers(bitString, i, shift) ==
    LET start    == i * (bitsPerNumber + bitsPerCount)
        numEnd   == start + bitsPerNumber
        countEnd == numEnd + bitsPerCount
    IN  IF countEnd <= Len(bitString)
        THEN LET num   == ParseBinary(Slice(bitString, start, numEnd)) + shift
                 count == ParseBinary(Slice(bitString, numEnd, countEnd))
             IN  IF num >= MinNumber /\ num <= MaxNumber /\ count > 0
                 THEN [j \in 1..count |-> num]
                 ELSE <<>>
        ELSE <<>>

DecodeEntries(data, shift) ==
    IF Len(data) = 0 THEN <<>>
    ELSE LET commaPos == IndexOf(data, Comma)
         IN  IF commaPos = -1 THEN <<>>
             ELSE LET countStr   == Slice(data, 0, commaPos)
                      packedData == Slice(data, commaPos + 1, Len(data))
                      entryCount == decodeNumber(countStr)
                  IN  IF entryCount = 0 THEN <<>>
                      ELSE LET bitString == UnpackBits(packedData)
                           IN  Sort(Join([i \in 1..entryCount |->
                                   EntryNumbers(bitString, i - 1, shift)]))

\* faulty variant: the shift of the range back to 1..300 is left out
decodeBitPackingNoShift(data) == DecodeEntries(data, 0)

decodeBitPacking(data) == DecodeEntries(data, 1)

-----------------------------------------------------------------------------
(* decodeDirect                                                            *)

decodeDirect(data) ==
    LET parts == SelectSeq(Split(data, Comma), NonEmpty)
    IN  SelectSeq([k \in 1..Len(parts) |-> decodeNumber(parts[k])], InRange)

-----------------------------------------------------------------------------
(* deserialize                                                             *)

Returned(arr) == [threw |-> FALSE, value |-> arr, message |-> NoError]
Thrown(msg) == [threw |-> TRUE, value |-> Null, message |-> msg]

\* faulty variant: an unknown method yields an empty array
deserializeLenient(encoded) ==
    IF encoded = Null \/ Len(encoded) = 0 \/ encoded = <<MarkerE>>
    THEN Returned(<<>>)
    ELSE LET method == encoded[1]
             data   == Tail(encoded)
         IN  CASE method = MarkerR -> Returned(decodeRunLength(data))
               [] method = MarkerB -> Returned(decodeBitPacking(data))
               [] method = MarkerD -> Returned(decodeDirect(data))
               [] OTHER -> Returned(<<>>)

deserialize(encoded) ==
    IF encoded = Null \/ Len(encoded) = 0 \/ encoded = <<MarkerE>>
    THEN Returned(<<>>)
    ELSE LET method == encoded[1]
             data   == Tail(encoded)
         IN  CASE method = MarkerR -> Returned(decodeRunLength(data))
               [] method = MarkerB -> Returned(decodeBitPacking(data))
               [] method = MarkerD -> Returned(decodeDirect(data))
               [] OTHER -> Thrown(InvalidEncodingMethod)

-----------------------------------------------------------------------------
(* Inputs                                                                  *)

\* values of the exhaustively enumerated arrays: both ends of the range, a
\* run of one-symbol values, a run of two-symbol values, and the two
\* neighbours of the range
SmallValues == {0, 1, 2, 298, 299, 300, 301}

SmallArrays == UNION {[1..n -> SmallValues] : n \in 0..MaxLen}

\* n distinct values first, first + step, ..., each repeated times times
Pattern(first, step, n, times) ==
    [i \in 1..(n * times) |-> first + step * ((i - 1) \div times)]

\* Array.from({length: n}, (_, i) => i + first)
RangeArrays == {Pattern(first, 1, n, 1) : first \in {1, 100}, n \in 1..MaxRun}

\* strided values, each value once or several times
StridedArrays ==
    {Pattern(first, step, n, times) :
        first \in {1, 100}, step \in 1..2, n \in 1..MaxDistinct,
        times \in 1..MaxTimes}

\* one value many times
RepeatArrays == {Pattern(7, 1, 1, times) : times \in 1..MaxCopies}

InputArrays ==
    {Null} \cup SmallArrays \cup RangeArrays \cup StridedArrays
           \cup RepeatArrays

\* characters of the strings handed to deserialize directly: the four
\* markers, two more alphabet symbols, the delimiters, and '~', which is
\* outside the alphabet
WireChars == {MarkerE, MarkerR, MarkerB, MarkerD, 88, 33, Comma, Semicolon, 126}

WireStrings == UNION {[1..n -> WireChars] : n \in 0..MaxWire}

-----------------------------------------------------------------------------
(* The compressor and one caller of it                                     *)

\* after new NumberArrayCompressor(); the caller either holds an array it
\* is about to serialize, or a string it received and is about to deserialize
Init ==
    /\ alphabet = BuildAlphabet
    /\ base = Len(BuildAlphabet)
    /\ runLength = Null
    /\ bitPacking = Null
    /\ direct = Null
    /\ decompressed = Null
    /\ error = NoError
    /\ \/ /\ pc = "new"
          /\ numbers \in InputArrays
          /\ original = numbers
          /\ compressed = Null
       \/ /\ pc = "received"
          /\ numbers = Null
          /\ original = Null
          /\ compressed \in WireStrings

\* compressed = compressor.serialize(numbers)
Serialize ==
    /\ pc = "new"
    /\ LET r == serialize(numbers)
       IN  /\ compressed' = r.result
           /\ runLength' = r.runLength
           /\ bitPacking' = r.bitPacking
           /\ direct' = r.direct
           /\ numbers' = r.numbers
    /\ pc' = "serialized"
    /\ UNCHANGED <<alphabet, base, original, decompressed, error>>

\* decompressed = compressor.deserialize(compressed)
Deserialize ==
    /\ pc \in {"serialized", "received"}
    /\ LET r == deserialize(compressed)
       IN  /\ decompressed' = r.value
           /\ error' = r.message
    /\ pc' = IF pc = "serialized" THEN "roundtrip" ELSE "decoded"
    /\ UNCHANGED <<alphabet, base, numbers, original, runLength, bitPacking,
                   direct, compressed>>

Next == Serialize \/ Deserialize

Spec == Init /\ [][Next]_vars

-----------------------------------------------------------------------------
(* Vocabulary of the properties                                            *)

Values(arr) == {arr[i] : i \in 1..Len(arr)}

Count(arr, v) == Cardinality({i \in 1..Len(arr) : arr[i] = v})

SameMultiset(a, b) ==
    /\ Len(a) = Len(b)
    /\ \A v \in Values(a) \cup Values(b) : Count(a, v) = Count(b, v)

IsSorted(arr) == \A i \in 1..(Len(arr) - 1) : arr[i] <= arr[i + 1]

AllInRange(arr) == \A i \in 1..Len(arr) : InRange(arr[i])

HasDuplicate(arr) == Cardinality(Values(arr)) < Len(arr)

\* the caller went through serialize with an array (not null)
WasSerialized == pc \in {"serialized", "roundtrip"} /\ original # Null

RoundTrip == pc = "roundtrip" /\ original # Null

Selected(marker) == Len(compressed) > 0 /\ compressed[1] = marker

-----------------------------------------------------------------------------
(* C1: for every set S of distinct integers of 1..300, the empty set       *)
(* included, deserialize(serialize(S)) taken as a set equals S, whichever  *)
(* strategy was selected.                                                  *)
RoundTripSets ==
    (RoundTrip /\ AllInRange(original) /\ ~HasDuplicate(original))
        => /\ error = NoError
           /\ Values(decompressed) = Values(original)

\* a set for which bit-packing is the shortest encoding came back
RoundTripSetsWitness ==
    /\ RoundTrip /\ AllInRange(original) /\ ~HasDuplicate(original)
    /\ Selected(MarkerB)
    /\ Values(decompressed) = Values(original)

(* C2: for every multiset M of integers of 1..300, also one in which a     *)
(* value occurs more than 255 times, deserialize(serialize(M)) holds every *)
(* value with exactly the multiplicity it has in M.                        *)
RoundTripMultisets ==
    (RoundTrip /\ AllInRange(original))
        => /\ error = NoError
           /\ SameMultiset(decompressed, original)

(* C3: for a non-empty array of non-negative integers with a value outside *)
(* 1..300, deserialize(serialize(values)) holds only integers of 1..300.   *)
OutOfRangeExcluded ==
    (RoundTrip /\ Len(original) > 0 /\ ~AllInRange(original))
        => /\ error = NoError
           /\ AllInRange(decompressed)

(* C4: for a non-empty input serialize returns the candidate of minimum    *)
(* length among Direct, RunLength and BitPacking, and of several shortest  *)
(* candidates the first in that order.                                     *)
StrategySelection ==
    (WasSerialized /\ Len(original) > 0)
        => LET m == Min(Len(direct), Min(Len(runLength), Len(bitPacking)))
           IN  /\ direct[1] = MarkerD
               /\ runLength[1] = MarkerR
               /\ bitPacking[1] = MarkerB
               /\ Len(compressed) = m
               /\ compressed = IF Len(direct) = m THEN direct
                               ELSE IF Len(runLength) = m THEN runLength
                               ELSE bitPacking

\* Direct and RunLength tie for the shortest and Direct was returned
StrategySelectionWitness ==
    /\ WasSerialized /\ Len(original) > 0
    /\ Len(direct) = Len(runLength)
    /\ Len(direct) <= Len(bitPacking)
    /\ compressed = direct

(* C5: deserialize of a non-empty string whose first character is none of  *)
(* 'E', 'R', 'B', 'D' fails with the invalid-encoding error, which reaches *)
(* the caller, and returns no array.                                       *)
InvalidMarkerThrows ==
    (/\ pc \in {"decoded", "roundtrip"}
     /\ compressed # Null /\ Len(compressed) > 0
     /\ compressed[1] \notin {MarkerE, MarkerR, MarkerB, MarkerD})
        => /\ error = InvalidEncodingMethod
           /\ decompressed = Null

\* a received string starting with 'X' was refused
InvalidMarkerWitness ==
    /\ pc = "decoded"
    /\ Len(compressed) > 1 /\ compressed[1] = 88
    /\ error = InvalidEncodingMethod
    /\ decompressed = Null

(* C6: serialize of an empty array or of null returns exactly 'E' and runs *)
(* none of the three encoders; deserialize of 'E' or of the empty string   *)
(* returns the empty array.                                                *)
EmptyInput ==
    /\ (/\ pc \in {"serialized", "roundtrip"}
        /\ (original = Null \/ Len(original) = 0))
          => /\ compressed = <<MarkerE>>
             /\ runLength = Null /\ bitPacking = Null /\ direct = Null
    /\ (/\ pc \in {"decoded", "roundtrip"}
        /\ compressed \in {<<>>, <<MarkerE>>})
          => /\ decompressed = <<>>
             /\ error = NoError

\* the empty array went through serialize and deserialize
EmptyInputWitness ==
    /\ pc = "roundtrip" /\ original = <<>>
    /\ compressed = <<MarkerE>> /\ direct = Null
    /\ decompressed = <<>>

(* C7, as stated: for an input with a repeated value, decodeRunLength of   *)
(* the payload of encodeRunLength(values) emits only distinct values, and  *)
(* whenever serialize selects 'R' for such an input, deserialize does not  *)
(* return the original multiset.                                           *)
RunLengthLosesDuplicates ==
    /\ (WasSerialized /\ HasDuplicate(original))
          => ~HasDuplicate(decodeRunLength(Tail(runLength)))
    /\ (RoundTrip /\ HasDuplicate(original) /\ Selected(MarkerR))
          => ~SameMultiset(decompressed, original)

(* C7, amended: for an input of non-negative integers with a repeated      *)
(* value, a duplicate breaks the run and starts a run of its own, so       *)
(* decodeRunLength of the payload of encodeRunLength(values) is the input  *)
(* in ascending order with every multiplicity kept, and whenever serialize *)
(* selects 'R' for such an input, deserialize returns exactly that.        *)
RunLengthKeepsDuplicates ==
    /\ (WasSerialized /\ HasDuplicate(original))
          => decodeRunLength(Tail(runLength)) = Sort(original)
    /\ (RoundTrip /\ HasDuplicate(original) /\ Selected(MarkerR))
          => /\ error = NoError
             /\ decompressed = Sort(original)

\* 'R' was selected for an input with a repeated value, which came back
RunLengthKeepsDuplicatesWitness ==
    /\ RoundTrip /\ HasDuplicate(original) /\ Selected(MarkerR)
    /\ SameMultiset(decompressed, original)

(* C8: the alphabet built by the constructor has exactly 64 symbols, and   *)
(* the base of encodeNumber and decodeNumber is 64.                        *)
AlphabetHas64Symbols == Len(alphabet) = 64 /\ base = 64

(* C9: serialize of a non-empty array sorts the caller's array in place:   *)
(* afterwards it holds the same multiset in ascending order; serialize of  *)
(* an empty array and every deserialize leave their argument unchanged.    *)
CallerArrayEffect ==
    [][/\ (pc = "new" /\ numbers # Null /\ Len(numbers) > 0)
            => IsSorted(numbers') /\ SameMultiset(numbers', numbers)
       /\ (pc = "new" /\ (numbers = Null \/ Len(numbers) = 0))
            => numbers' = numbers
       /\ (pc \in {"serialized", "received"})
            => compressed' = compressed /\ numbers' = numbers]_vars

\* an array that was not in ascending order has been serialized
CallerArrayEffectWitness ==
    /\ pc = "serialized" /\ original # Null
    /\ ~IsSorted(original)
    /\ IsSorted(numbers) /\ SameMultiset(numbers, original)

(* C10: for every non-empty multiset M of integers of 1..300 in which each *)
(* value occurs at most 255 times, deserialize(serialize(M)) is exactly    *)
(* the elements of M in ascending order, whichever marker was produced.    *)
RoundTripUpTo255 ==
    (/\ RoundTrip /\ Len(original) > 0 /\ AllInRange(original)
     /\ \A v \in Values(original) : Count(original, v) <= MaxCount)
        => /\ error = NoError
           /\ decompressed = Sort(original)

\* a value that occurs exactly 255 times came back through bit-packing
RoundTripUpTo255Witness ==
    /\ RoundTrip /\ AllInRange(original) /\ Selected(MarkerB)
    /\ \E v \in Values(original) : Count(original, v) = MaxCount
    /\ decompressed = Sort(original)

====
